---- MODULE Spec2Model ----
(***************************************************************************)
(* Session lifecycle and CSRF protection core of the FastAPI backend:      *)
(* backend/security/auth_manager.py (create_session, get_session,          *)
(* delete_session over Redis), backend/middleware/session_middleware.py    *)
(* (SessionMiddleware.dispatch), backend/dependencies/auth_dependencies.py *)
(* (the session and CSRF guards), backend/routers/auth_router.py and       *)
(* backend/services/auth_service.py (register, login, logout).             *)
(*                                                                         *)
(* Each request is a coroutine; an action is the code between two awaits   *)
(* of a store (Redis) call, so concurrent requests interleave exactly at   *)
(* the store calls.  Time is a discrete clock; one tick is one second.     *)
(* The startup wiring (Redis client connected, request ids attached to the *)
(* request state) is taken to be in place.                                 *)
(***************************************************************************)
EXTENDS Integers, Sequences, FiniteSets, TLC

\* ------------------------------------------------------------- bounds
MaxTime == 5        \* the clock stops here
MaxSessions == 1    \* sessions created, where one session is enough

\* ------------------------------------------------------ configuration
\* backend/config.py; the defaults are 1800 s and 86400 s, any positive
\* integers can be configured through the environment.
SESSION_IDLE_TIMEOUT == 2
SESSION_ABSOLUTE_TIMEOUT == 3

\* Optional[T]: None or a value
None == <<>>
Some(x) == <<x>>

\* What a call yields: the exception it raises ("" for none), the
\* exception's detail, and the value it returns.
Raise(exc, detail) == [exc |-> exc, detail |-> detail, value |-> None]
Return(v) == [exc |-> "", detail |-> "", value |-> Some(v)]

Reqs == {"r1", "r2"}                 \* concurrently handled requests
SessionIds == 1 .. (MaxSessions + 1) \* values uuid4 returns for sessions
ForgedId == 0                        \* a well-formed id no session was given
Times == 0 .. MaxTime

\* -------------------------------------------------- text conversions
\* str(uuid.UUID): the canonical text of an id
UuidStr(u) == <<"hex", u>>
\* a cookie value that is not the text of any id
JunkText == <<"junk", 0>>
\* uuid.UUID(text): the id, or None for ValueError
UuidParse(s) == IF s[1] = "hex" THEN Some(s[2]) ELSE None
\* datetime.isoformat / datetime.fromisoformat
IsoFormat(t) == <<"iso", t>>
FromIso(s) == s[2]
\* expires_at.strftime("%a, %d %b %Y %H:%M:%S GMT")
Strftime(t) == <<"rfc1123", t>>

\* SessionData.model_dump_json
model_dump_json(sd) ==
    [ session_id       |-> UuidStr(sd.session_id),
      user_id          |-> UuidStr(sd.user_id),
      csrf_token       |-> sd.csrf_token,
      created_at       |-> IsoFormat(sd.created_at),
      expires_at       |-> IsoFormat(sd.expires_at),
      last_activity_at |-> IsoFormat(sd.last_activity_at) ]

\* SessionData.model_validate_json
model_validate_json(js) ==
    [ session_id       |-> UuidParse(js.session_id)[1],
      user_id          |-> UuidParse(js.user_id)[1],
      csrf_token       |-> js.csrf_token,
      created_at       |-> FromIso(js.created_at),
      expires_at       |-> FromIso(js.expires_at),
      last_activity_at |-> FromIso(js.last_activity_at) ]

\* ------------------------------------------------------------- tokens
\* secrets.token_urlsafe(32): a random text of fixed length (here two
\* letters) that no earlier call returned and no client can guess; Token(n)
\* is the text the n-th call returns.
Token(n) == <<1, n>>
\* texts a client can make up: empty, too short, of the right length, and
\* of the right length with a letter outside ASCII (a header value is
\* decoded as latin-1, so a byte from 128 up arrives as such a letter)
EmptyText == <<>>
ShortText == <<1>>
ForgedToken == <<2, 2>>
NonAsciiToken == <<1, 200>>
IsAscii(text) == \A i \in 1 .. Len(text) : text[i] < 128

\* faulty variant: compares only up to the shorter length
compare_digest_prefix(a, b) ==
    IF ~ IsAscii(a) \/ ~ IsAscii(b)
    THEN Raise("TypeError", "")
    ELSE Return(\A i \in 1 .. Len(a) : i <= Len(b) => a[i] = b[i])

\* secrets.compare_digest on two str: equal length and equal at every
\* position; a str with a letter outside ASCII is a TypeError
compare_digest(a, b) ==
    IF ~ IsAscii(a) \/ ~ IsAscii(b)
    THEN Raise("TypeError", "")
    ELSE Return(/\ Len(a) = Len(b)
                /\ \A i \in 1 .. Len(a) : a[i] = b[i])

\* validate_csrf_token: a falsy (absent or empty) argument is refused first
validate_csrf_token(expected_token, received_token) ==
    IF expected_token = <<>> \/ received_token = <<>>
    THEN Return(FALSE)
    ELSE compare_digest(expected_token, received_token)

\* --------------------------------------------------------- passwords
\* pwd_context.hash / pwd_context.verify (bcrypt)
hash_password(password) == <<"bcrypt", password>>
verify_password(plain_password, hashed_password) ==
    hashed_password = <<"bcrypt", plain_password>>

\* ------------------------------------------------------------- state
VARIABLES
    now,         \* datetime.now(timezone.utc), in seconds
    store,       \* Redis: key -> None | Some([value, expire_at])
    users,       \* the users table
    nextSid,     \* the next id uuid4 returns in create_session
    nextTok,     \* the number of the next generate_csrf_token call
    req,         \* per request in flight: the coroutine's position and locals
    sent,        \* the request the last step completed, with its response
    logged_out   \* history: the session ids a completed logout deleted

vars == <<now, store, users, nextSid, nextTok, req, sent, logged_out>>

Keys == { UuidStr(u) : u \in SessionIds \cup {ForgedId} }

\* ------------------------------------------------------ Redis client
\* redis_client.get: the value, or None for a missing key
RedisGet(st, key) == IF st[key] = None THEN None ELSE Some(st[key][1].value)
\* redis_client.setex(key, ttl, value) executed at time t
RedisSetex(st, key, ttl, value, t) ==
    [st EXCEPT ![key] = Some([value |-> value, expire_at |-> t + ttl])]
\* faulty variant: the delete takes every key with it
RedisDelete_all(st, key) == [k \in DOMAIN st |-> None]

\* redis_client.delete
RedisDelete(st, key) == [st EXCEPT ![key] = None]
\* what redis_client.delete answers: the number of keys it removed
RedisDeleteCount(st, key) == IF st[key] = None THEN 0 ELSE 1
\* Redis drops a key once its time to live has elapsed
RedisExpire(st, t) ==
    [k \in DOMAIN st |->
        IF st[k] # None /\ st[k][1].expire_at <= t THEN None ELSE st[k]]

\* ------------------------------------------------------- users table
\* faulty variant: the identifier is compared with the usernames only
get_user_by_username_only(identifier) ==
    LET m == { u \in users : u.username = identifier }
    IN  IF m = {} THEN None ELSE Some(CHOOSE u \in m : TRUE)
\* UserRepository.get_user_by_username_or_email
get_user_by_username_or_email(identifier) ==
    LET m == { u \in users : u.username = identifier \/ u.email = identifier }
    IN  IF m = {} THEN None ELSE Some(CHOOSE u \in m : TRUE)
\* UserRepository.get_user_by_id
get_user_by_id(user_id) ==
    LET m == { u \in users : u.id = user_id }
    IN  IF m = {} THEN None ELSE Some(CHOOSE u \in m : TRUE)

\* ------------------------------------------------ exception handlers
\* main.py: what a raised exception becomes on the wire.  An exception
\* with no handler (a store failure surfacing from a route) is a bare 500.
ExceptionResponse(exc, detail) ==
    CASE exc = "UserAlreadyExistsException" ->
            [status |-> 409, code |-> "USER_ALREADY_EXISTS", message |-> detail]
      [] exc = "UserNotFoundException" ->
            [status |-> 404, code |-> "USER_NOT_FOUND", message |-> detail]
      [] exc = "IncorrectCredentialsException" ->
            [status |-> 401, code |-> "INCORRECT_CREDENTIALS",
             message |-> detail]
      [] exc = "SessionExpiredException" ->
            [status |-> 401, code |-> "SESSION_EXPIRED", message |-> detail]
      [] exc = "CSRFTokenMismatchException" ->
            [status |-> 403, code |-> "CSRF_TOKEN_MISMATCH", message |-> detail]
      [] exc = "UnauthorizedException" ->
            [status |-> 401, code |-> "UNAUTHORIZED", message |-> detail]
      [] exc = "ForbiddenException" ->
            [status |-> 403, code |-> "FORBIDDEN", message |-> detail]
      [] OTHER ->
            [status |-> 500, code |-> "", message |-> "Internal Server Error"]

\* ------------------------------------------------------- dependencies
\* get_current_session_data(request): request.state.session_data or 401
get_current_session_data(state_session_data) ==
    IF state_session_data = None
    THEN Raise("UnauthorizedException", "Not authenticated. Please log in.")
    ELSE Return(state_session_data[1])

\* faulty variant: only GET is let through unchecked
SafeMethods_get == {"GET"}

\* request.method not in ["GET", "HEAD", "OPTIONS"], line 48
SafeMethods == {"GET", "HEAD", "OPTIONS"}

\* faulty variant: the header is looked at before the session
validate_csrf_before_session(method, header, state_session_data) ==
    LET dep == get_current_session_data(state_session_data)
        session_data == dep.value[1]
        is_valid == validate_csrf_token(session_data.csrf_token, header[1])
    IN  IF method \notin SafeMethods /\ (header = None \/ header[1] = <<>>)
        THEN Raise("CSRFTokenMismatchException", "CSRF token is missing.")
        ELSE IF dep.exc # "" THEN dep
        ELSE IF method \notin SafeMethods /\ is_valid.exc # ""
        THEN is_valid
        ELSE IF method \notin SafeMethods /\ ~ is_valid.value[1]
        THEN Raise("CSRFTokenMismatchException",
                   "CSRF token validation failed.")
        ELSE Return(session_data.user_id)

\* get_current_user_id_and_validate_csrf(request, session_data); header is
\* request.headers.get("X-CSRF-Token"): None or Some(text)
get_current_user_id_and_validate_csrf(method, header, state_session_data) ==
    LET dep == get_current_session_data(state_session_data)
        session_data == dep.value[1]
        is_valid == validate_csrf_token(session_data.csrf_token, header[1])
    IN  IF dep.exc # "" THEN dep
        ELSE IF method \notin SafeMethods
        THEN IF header = None \/ header[1] = <<>>
             THEN Raise("CSRFTokenMismatchException", "CSRF token is missing.")
             ELSE IF is_valid.exc # "" THEN is_valid
             ELSE IF ~ is_valid.value[1]
             THEN Raise("CSRFTokenMismatchException",
                        "CSRF token validation failed.")
             ELSE Return(session_data.user_id)
        ELSE Return(session_data.user_id)

\* get_current_user(user_id, db_session): the user row of the session.  Both
\* of its branches format a log line from a name (request) that the function
\* does not have: the branch for a missing row ends in a NameError, not in
\* the UnauthorizedException written after it, and so does the branch for a
\* row that was found, before its return.
get_current_user(method, header, state_session_data) ==
    LET dep == get_current_user_id_and_validate_csrf(method, header,
                                                     state_session_data)
        user == get_user_by_id(dep.value[1])
    IN  IF dep.exc # "" THEN dep
        ELSE IF user = None THEN Raise("NameError", "")
        ELSE Raise("NameError", "")

\* ----------------------------------------------------------- requests
\* A request as the client sends it.  Fields a route does not read are
\* left empty.
Request(route, method, header, ident, email, password) ==
    [ route |-> route, method |-> method, header |-> header,
      ident |-> ident, email |-> email, password |-> password ]

NoRequest == Request("none", "GET", None, "", "", "")

NoResponse ==
    [ status |-> 0, code |-> "", message |-> "", set_cookie |-> None,
      csrf_header |-> None, user_id |-> None ]

\* The coroutine of one request: where it is (pc), the cookie it came with,
\* the locals of dispatch (session_id_str, session_data), request.state
\* (state_session_data, session_deleted), the locals of get_session and
\* create_session (session_key, session_json, pending, gs_now), what
\* get_session came to (gs_result), the route's inputs once the route runs
\* (inp) and the response.  after_logout is history: the cookie named a
\* session a completed logout had deleted when the request arrived;
\* deleted_count is what the store answered to the delete of a logout;
\* guard is what get_current_user_id_and_validate_csrf returned to a
\* guarded route (None when it raised, or when the route has no guard);
\* gs_calls lists the store calls get_session has made for the request.
NewRequest(cookie) ==
    [ pc |-> "idle", cookie |-> cookie, inp |-> NoRequest,
      session_id_str |-> cookie, session_data |-> None,
      state_session_data |-> None, session_deleted |-> FALSE,
      session_key |-> None, session_json |-> None, pending |-> None,
      gs_now |-> 0, gs_result |-> "none",
      after_logout |-> FALSE, deleted_count |-> 0, guard |-> None,
      gs_calls |-> <<>>, resp |-> NoResponse ]

Idle == NewRequest(None)

\* response.set_cookie(...) of dispatch, lines 59-69
SetCookie(sd) ==
    [ op |-> "set", value |-> UuidStr(sd.session_id),
      max_age |-> SESSION_ABSOLUTE_TIMEOUT,
      expires |-> Strftime(sd.expires_at) ]
\* response.delete_cookie(...): empty value, max-age 0, expires at epoch
DeleteCookie ==
    [ op |-> "delete", value |-> <<"", 0>>, max_age |-> 0,
      expires |-> Strftime(0) ]

\* faulty variant: the cookie is cleared whenever no session was resolved
Outbound_clear(rq) ==
    IF rq.session_deleted THEN Some(DeleteCookie)
    ELSE IF rq.state_session_data # None
    THEN Some(SetCookie(rq.state_session_data[1]))
    ELSE Some(DeleteCookie)

\* dispatch after call_next: which cookie header the response gets
Outbound(rq) ==
    IF rq.session_deleted THEN Some(DeleteCookie)
    ELSE IF rq.state_session_data # None
    THEN Some(SetCookie(rq.state_session_data[1]))
    ELSE IF rq.session_id_str # None /\ rq.session_data = None
    THEN Some(DeleteCookie)
    ELSE None

\* The route returned or raised an exception that has a handler: call_next
\* gives dispatch a response and dispatch finishes it.
Respond(rq, status, code, message, csrf_header, user_id) ==
    [rq EXCEPT !.pc = "done",
               !.resp = [ status |-> status, code |-> code,
                          message |-> message, set_cookie |-> Outbound(rq),
                          csrf_header |-> csrf_header, user_id |-> user_id ]]

\* The route raised an exception that has no handler: call_next raises it
\* in dispatch, the rest of dispatch does not run, the server answers 500.
ServerError(rq) ==
    [rq EXCEPT !.pc = "done",
               !.resp = [NoResponse EXCEPT !.status = 500,
                                          !.message = "Internal Server Error"]]

\* the exceptions main.py registers a handler for
HandledExceptions ==
    { "UserAlreadyExistsException", "UserNotFoundException",
      "IncorrectCredentialsException", "SessionExpiredException",
      "CSRFTokenMismatchException", "UnauthorizedException",
      "ForbiddenException" }

RespondException(rq, exc, detail) ==
    LET e == ExceptionResponse(exc, detail)
    IN  IF exc \in HandledExceptions
        THEN Respond(rq, e.status, e.code, e.message, None, None)
        ELSE ServerError(rq)

\* request r ends with the finished record done: the response goes out and
\* the coroutine is gone
Complete(r, done) ==
    /\ req' = [req EXCEPT ![r] = Idle]
    /\ sent' = Some([done EXCEPT !.pc = r])

\* ------------------------------------------------------------ initial
Init ==
    /\ now = 0
    /\ store = [k \in Keys |-> None]
    /\ users = {}
    /\ nextSid = 1
    /\ nextTok = 1
    /\ req = [r \in Reqs |-> Idle]
    /\ sent = None
    /\ logged_out = {}

\* --------------------------------------------- SessionMiddleware.dispatch
\* faulty variant: a cookie that does not parse is not forgotten
dispatch_inbound_keep(r, cookie, ok) ==
    /\ req[r].pc = "idle"
    /\ LET rq == NewRequest(cookie)
           parsed == UuidParse(cookie[1])
           session_key == UuidStr(parsed[1])
           session_json == RedisGet(store, session_key)
       IN  req' = [req EXCEPT ![r] =
             IF cookie = None
             THEN [rq EXCEPT !.pc = "route"]
             ELSE IF parsed = None
             THEN [rq EXCEPT !.pc = "route"]
             ELSE IF ~ok
             THEN [rq EXCEPT !.pc = "route", !.gs_result = "error",
                             !.gs_calls = <<"get">>,
                             !.after_logout = parsed[1] \in logged_out]
             ELSE IF session_json = None
             THEN [rq EXCEPT !.pc = "route", !.gs_result = "absent",
                             !.gs_calls = <<"get">>,
                             !.after_logout = parsed[1] \in logged_out]
             ELSE [rq EXCEPT !.pc = "gs_check",
                             !.gs_calls = <<"get">>,
                             !.session_key = Some(session_key),
                             !.session_json = session_json,
                             !.after_logout = parsed[1] \in logged_out]]
    /\ sent' = None
    /\ UNCHANGED <<now, store, users, nextSid, nextTok, logged_out>>

\* A request arrives; dispatch reads the cookie and, for a cookie that
\* parses, get_session runs up to the answer of redis_client.get
\* (ok: the store call succeeded).
dispatch_inbound(r, cookie, ok) ==
    /\ req[r].pc = "idle"
    /\ LET rq == NewRequest(cookie)
           parsed == UuidParse(cookie[1])
           session_key == UuidStr(parsed[1])
           session_json == RedisGet(store, session_key)
       IN  req' = [req EXCEPT ![r] =
             IF cookie = None
             THEN [rq EXCEPT !.pc = "route"]
             ELSE IF parsed = None
             THEN [rq EXCEPT !.pc = "route", !.session_id_str = None]
             ELSE IF ~ok
             THEN [rq EXCEPT !.pc = "route", !.gs_result = "error",
                             !.gs_calls = <<"get">>,
                             !.after_logout = parsed[1] \in logged_out]
             ELSE IF session_json = None
             THEN [rq EXCEPT !.pc = "route", !.gs_result = "absent",
                             !.gs_calls = <<"get">>,
                             !.after_logout = parsed[1] \in logged_out]
             ELSE [rq EXCEPT !.pc = "gs_check",
                             !.gs_calls = <<"get">>,
                             !.session_key = Some(session_key),
                             !.session_json = session_json,
                             !.after_logout = parsed[1] \in logged_out]]
    /\ sent' = None
    /\ UNCHANGED <<now, store, users, nextSid, nextTok, logged_out>>

\* ---------------------------------------------------------- get_session
\* faulty variants: no absolute check at all; the check one second late
IsExpired_never(session_data, t) == FALSE
IsExpired_late(session_data, t) == session_data.expires_at + 1 < t

\* the absolute expiration check, line 95
IsExpired(session_data, t) == session_data.expires_at < t

\* faulty variant: the renewal also pushes expires_at forward
Touch_extend(session_data, t) ==
    [session_data EXCEPT !.last_activity_at = t,
                         !.expires_at = t + SESSION_ABSOLUTE_TIMEOUT]

\* session_data.last_activity_at = now, line 103
Touch(session_data, t) == [session_data EXCEPT !.last_activity_at = t]

\* faulty variant: the absolute limit is counted from the last activity
get_session_check_sliding(r) ==
    /\ req[r].pc = "gs_check"
    /\ LET session_data == model_validate_json(req[r].session_json[1])
       IN  req' = [req EXCEPT ![r] =
             IF session_data.last_activity_at + SESSION_ABSOLUTE_TIMEOUT
                    < now
             THEN [@ EXCEPT !.pc = "gs_delete", !.gs_now = now,
                            !.session_json = None,
                            !.pending = Some(session_data)]
             ELSE [@ EXCEPT !.pc = "gs_setex", !.gs_now = now,
                            !.session_json = None,
                            !.pending = Some(Touch(session_data, now))]]
    /\ sent' = None
    /\ UNCHANGED <<now, store, users, nextSid, nextTok, logged_out>>

\* get_session after the read: decode, read the clock, check expiry
get_session_check(r) ==
    /\ req[r].pc = "gs_check"
    /\ LET session_data == model_validate_json(req[r].session_json[1])
       IN  req' = [req EXCEPT ![r] =
             IF IsExpired(session_data, now)
             THEN [@ EXCEPT !.pc = "gs_delete", !.gs_now = now,
                            !.session_json = None,
                            !.pending = Some(session_data)]
             ELSE [@ EXCEPT !.pc = "gs_setex", !.gs_now = now,
                            !.session_json = None,
                            !.pending = Some(Touch(session_data, now))]]
    /\ sent' = None
    /\ UNCHANGED <<now, store, users, nextSid, nextTok, logged_out>>

\* faulty variant: a failed store call still hands back the record in hand
Returned_lenient(rq, result, session_data) ==
    LET given == IF result = "error" THEN rq.pending ELSE session_data
    IN  [rq EXCEPT !.pc = "route", !.gs_result = result,
                   !.session_data = given,
                   !.state_session_data = given,
                   !.session_key = None, !.session_json = None,
                   !.pending = None, !.gs_now = 0]

\* get_session returns to dispatch: its locals are gone
Returned(rq, result, session_data) ==
    [rq EXCEPT !.pc = "route", !.gs_result = result,
               !.session_data = session_data,
               !.state_session_data = session_data,
               !.session_key = None, !.session_json = None,
               !.pending = None, !.gs_now = 0]

\* faulty variant: the renewal rewrites the value and keeps the old TTL
RenewWrite_keepttl(st, key, session_data, t) ==
    IF st[key] = None
    THEN RedisSetex(st, key, SESSION_IDLE_TIMEOUT,
                    model_dump_json(session_data), t)
    ELSE [st EXCEPT ![key] = Some([ value |-> model_dump_json(session_data),
                                    expire_at |-> st[key][1].expire_at ])]

\* the renewal write of get_session, line 104
RenewWrite(st, key, session_data, t) ==
    RedisSetex(st, key, SESSION_IDLE_TIMEOUT, model_dump_json(session_data), t)

\* faulty variant: after the renewal write the record is deleted as well
get_session_setex_then_delete(r, ok) ==
    /\ req[r].pc = "gs_setex"
    /\ IF ok
       THEN /\ store' = RenewWrite(store, req[r].session_key[1],
                                   req[r].pending[1], now)
            /\ req' = [req EXCEPT ![r] =
                         [@ EXCEPT !.pc = "gs_delete",
                                   !.gs_calls = Append(@, "setex")]]
       ELSE /\ store' = store
            /\ req' = [req EXCEPT ![r] =
                         [Returned(@, "error", None) EXCEPT
                             !.gs_calls = Append(@, "setex")]]
    /\ sent' = None
    /\ UNCHANGED <<now, users, nextSid, nextTok, logged_out>>

\* get_session, live session: setex, then return the updated record; a
\* failing store call is caught and get_session returns None
get_session_setex(r, ok) ==
    /\ req[r].pc = "gs_setex"
    /\ IF ok
       THEN /\ store' = RenewWrite(store, req[r].session_key[1],
                                   req[r].pending[1], now)
            /\ req' = [req EXCEPT ![r] =
                         [Returned(@, "found", @.pending) EXCEPT
                             !.gs_calls = Append(@, "setex")]]
       ELSE /\ store' = store
            /\ req' = [req EXCEPT ![r] =
                         [Returned(@, "error", None) EXCEPT
                             !.gs_calls = Append(@, "setex")]]
    /\ sent' = None
    /\ UNCHANGED <<now, users, nextSid, nextTok, logged_out>>

\* faulty variant: when the delete fails the expired record is handed back
get_session_delete_keep(r, ok) ==
    /\ req[r].pc = "gs_delete"
    /\ IF ok
       THEN /\ store' = RedisDelete(store, req[r].session_key[1])
            /\ req' = [req EXCEPT ![r] =
                         [Returned(@, "expired", None) EXCEPT
                             !.session_id_str = None,
                             !.gs_calls = Append(@, "delete")]]
       ELSE /\ store' = store
            /\ req' = [req EXCEPT ![r] =
                         [Returned(@, "found", @.pending) EXCEPT
                             !.gs_calls = Append(@, "delete")]]
    /\ sent' = None
    /\ UNCHANGED <<now, users, nextSid, nextTok, logged_out>>

\* get_session, expired session: delete_session, then SessionExpired, which
\* dispatch catches (it forgets the cookie and goes on with no session); a
\* failing delete is re-raised by delete_session, caught by get_session's
\* own handler, and get_session returns None
get_session_delete(r, ok) ==
    /\ req[r].pc = "gs_delete"
    /\ IF ok
       THEN /\ store' = RedisDelete(store, req[r].session_key[1])
            /\ req' = [req EXCEPT ![r] =
                         [Returned(@, "expired", None) EXCEPT
                             !.session_id_str = None,
                             !.gs_calls = Append(@, "delete")]]
       ELSE /\ store' = store
            /\ req' = [req EXCEPT ![r] =
                         [Returned(@, "error", None) EXCEPT
                             !.gs_calls = Append(@, "delete")]]
    /\ sent' = None
    /\ UNCHANGED <<now, users, nextSid, nextTok, logged_out>>

\* --------------------------------------------------------------- routes
\* POST /api/auth/register: AuthService.register_user
route_register(r, inp) ==
    /\ req[r].pc = "route" /\ inp.route = "register"
    /\ LET rq == [req[r] EXCEPT !.inp = inp]
           taken == \/ get_user_by_username_or_email(inp.ident) # None
                    \/ get_user_by_username_or_email(inp.email) # None
           new_user == [ id |-> 10 + Cardinality(users) + 1,
                         username |-> inp.ident, email |-> inp.email,
                         hashed_password |-> hash_password(inp.password) ]
       IN  IF taken
           THEN /\ users' = users
                /\ Complete(r, RespondException(rq,
                       "UserAlreadyExistsException",
                       "Username or email already registered."))
           ELSE /\ users' = users \cup {new_user}
                /\ Complete(r, Respond(rq, 201, "",
                       "User registered successfully!", None, None))
    /\ UNCHANGED <<now, store, nextSid, nextTok, logged_out>>

\* result.scalar_one_or_none(): no row, the one row, or MultipleResultsFound
scalar_one_or_none(m) ==
    IF m = {} THEN Return(None)
    ELSE IF Cardinality(m) = 1 THEN Return(Some(CHOOSE u \in m : TRUE))
    ELSE Raise("MultipleResultsFound", "")

\* the select of get_user_by_username_or_email: the rows the or_ matches
select_username_or_email(identifier) ==
    { u \in users : u.username = identifier \/ u.email = identifier }

\* The registration as the awaits of register_user divide it: each lookup
\* and the insert is a database round trip, and other requests run between
\* them.  First await: the lookup of the username.
register_check_username(r, inp) ==
    /\ req[r].pc = "route" /\ inp.route = "register"
    /\ LET rq == [req[r] EXCEPT !.inp = inp]
           existing_user ==
               scalar_one_or_none(select_username_or_email(inp.ident))
       IN  IF existing_user.exc # ""
           THEN Complete(r, RespondException(rq, existing_user.exc, ""))
           ELSE IF existing_user.value[1] # None
           THEN Complete(r, RespondException(rq,
                    "UserAlreadyExistsException",
                    "Username or email already registered."))
           ELSE /\ req' = [req EXCEPT ![r] = [rq EXCEPT !.pc = "reg_email"]]
                /\ sent' = None
    /\ UNCHANGED <<now, store, users, nextSid, nextTok, logged_out>>

\* second await: the lookup of the e-mail
register_check_email(r) ==
    /\ req[r].pc = "reg_email"
    /\ LET rq == req[r]
           existing_user ==
               scalar_one_or_none(select_username_or_email(rq.inp.email))
       IN  IF existing_user.exc # ""
           THEN Complete(r, RespondException(rq, existing_user.exc, ""))
           ELSE IF existing_user.value[1] # None
           THEN Complete(r, RespondException(rq,
                    "UserAlreadyExistsException",
                    "Username or email already registered."))
           ELSE /\ req' = [req EXCEPT ![r] = [rq EXCEPT !.pc = "reg_insert"]]
                /\ sent' = None
    /\ UNCHANGED <<now, store, users, nextSid, nextTok, logged_out>>

\* the unique constraints of the users table: one on the username column,
\* one on the email column
UniqueViolation(username, email) ==
    \/ \E u \in users : u.username = username
    \/ \E u \in users : u.email = email

\* third await: create_user's add and commit.  The database refuses a row
\* that breaks a unique constraint; the IntegrityError has no handler and
\* the request ends in a 500.
create_user(r) ==
    /\ req[r].pc = "reg_insert"
    /\ LET rq == req[r]
           db_user == [ id |-> 10 + Cardinality(users) + 1,
                        username |-> rq.inp.ident, email |-> rq.inp.email,
                        hashed_password |-> hash_password(rq.inp.password) ]
       IN  IF UniqueViolation(rq.inp.ident, rq.inp.email)
           THEN /\ users' = users
                /\ Complete(r, RespondException(rq, "IntegrityError", ""))
           ELSE /\ users' = users \cup {db_user}
                /\ Complete(r, Respond(rq, 201, "",
                       "User registered successfully!", None, None))
    /\ UNCHANGED <<now, store, nextSid, nextTok, logged_out>>

\* faulty variant: the id handed out last is handed out again
uuid4_reused == IF nextSid > 1 THEN nextSid - 1 ELSE nextSid

\* uuid.uuid4() in create_session: an id never returned before
uuid4 == nextSid

\* generate_csrf_token(): secrets.token_urlsafe(32)
generate_csrf_token == Token(nextTok)

\* faulty variant: the absolute expiry is computed from the idle timeout
NewSession_idle(session_id, user_id, csrf_token, t) ==
    [ session_id |-> session_id, user_id |-> user_id,
      csrf_token |-> csrf_token, created_at |-> t,
      expires_at |-> t + SESSION_IDLE_TIMEOUT, last_activity_at |-> t ]

\* create_session up to the store call: the record it builds
NewSession(session_id, user_id, csrf_token, t) ==
    [ session_id |-> session_id, user_id |-> user_id,
      csrf_token |-> csrf_token, created_at |-> t,
      expires_at |-> t + SESSION_ABSOLUTE_TIMEOUT, last_activity_at |-> t ]

\* faulty variant: the failure of a login says which credential was wrong
login_failure_telling(user) ==
    IF user = None
    THEN Raise("UserNotFoundException", "User not found.")
    ELSE Raise("IncorrectCredentialsException", "Invalid password.")

\* login_user, lines 57-59: the one raise for an identifier without a user
\* and for a password that does not verify
login_failure(user) ==
    Raise("IncorrectCredentialsException",
          "Invalid username/email or password.")

\* faulty variant: the session is written before the password is verified
route_login_early(r, inp, limit) ==
    /\ req[r].pc = "route" /\ inp.route = "login"
    /\ LET rq == [req[r] EXCEPT !.inp = inp]
           user == get_user_by_username_or_email(inp.ident)
           csrf_token == generate_csrf_token
           session_data == NewSession(uuid4, user[1].id, csrf_token, now)
           failure == login_failure(user)
       IN  IF user = None
              \/ ~verify_password(inp.password, user[1].hashed_password)
           THEN /\ nextSid' = nextSid
                /\ nextTok' = nextTok
                /\ store' = IF user # None /\ nextSid <= limit
                            THEN RedisSetex(store,
                                     UuidStr(session_data.session_id),
                                     SESSION_IDLE_TIMEOUT,
                                     model_dump_json(session_data), now)
                            ELSE store
                /\ Complete(r, RespondException(rq, failure.exc,
                                                failure.detail))
           ELSE /\ nextSid <= limit
                /\ nextSid' = nextSid + 1
                /\ nextTok' = nextTok + 1
                /\ req' = [req EXCEPT ![r] =
                     [rq EXCEPT !.pc = "create_setex",
                                !.session_key =
                                    Some(UuidStr(session_data.session_id)),
                                !.pending = Some(session_data),
                                !.gs_now = now]]
                /\ sent' = None
                /\ store' = store
    /\ UNCHANGED <<now, users, logged_out>>

\* POST /api/auth/login: AuthService.login_user up to the store call of
\* create_session; limit caps the sessions created
route_login(r, inp, limit) ==
    /\ req[r].pc = "route" /\ inp.route = "login"
    /\ LET rq == [req[r] EXCEPT !.inp = inp]
           user == get_user_by_username_or_email(inp.ident)
           csrf_token == generate_csrf_token
           session_data == NewSession(uuid4, user[1].id, csrf_token, now)
           failure == login_failure(user)
       IN  IF user = None
              \/ ~verify_password(inp.password, user[1].hashed_password)
           THEN /\ nextSid' = nextSid
                /\ nextTok' = nextTok
                /\ Complete(r, RespondException(rq, failure.exc,
                                                failure.detail))
           ELSE /\ nextSid <= limit
                /\ nextSid' = nextSid + 1
                /\ nextTok' = nextTok + 1
                /\ req' = [req EXCEPT ![r] =
                     [rq EXCEPT !.pc = "create_setex",
                                !.session_key =
                                    Some(UuidStr(session_data.session_id)),
                                !.pending = Some(session_data),
                                !.gs_now = now]]
                /\ sent' = None
    /\ UNCHANGED <<now, store, users, logged_out>>

\* faulty variant: the record is created with the absolute timeout as TTL
CreateWrite_absolute(st, key, session_data, t) ==
    RedisSetex(st, key, SESSION_ABSOLUTE_TIMEOUT,
               model_dump_json(session_data), t)

\* faulty variant: the new session replaces the other sessions of its user
CreateWrite_single(st, key, session_data, t) ==
    [k \in DOMAIN st |->
        IF k = key
        THEN Some([value |-> model_dump_json(session_data),
                   expire_at |-> t + SESSION_IDLE_TIMEOUT])
        ELSE IF st[k] # None
                /\ model_validate_json(st[k][1].value).user_id
                      = session_data.user_id
        THEN None
        ELSE st[k]]

\* the write of create_session, line 71
CreateWrite(st, key, session_data, t) ==
    RedisSetex(st, key, SESSION_IDLE_TIMEOUT, model_dump_json(session_data), t)

\* faulty variant: a failed write is swallowed and login goes on
create_session_setex_swallow(r, ok) ==
    /\ req[r].pc = "create_setex"
    /\ LET key == req[r].session_key[1]
           session_data == req[r].pending[1]
           rq == [req[r] EXCEPT !.session_key = None, !.pending = None,
                                !.gs_now = 0]
       IN  /\ store' = IF ok THEN CreateWrite(store, key, session_data, now)
                             ELSE store
           /\ Complete(r, Respond([rq EXCEPT !.state_session_data =
                                                 Some(session_data)],
                                  200, "", "Login successful!",
                                  Some(session_data.csrf_token), None))
    /\ UNCHANGED <<now, users, nextSid, nextTok, logged_out>>

\* create_session's setex and the rest of login: the session goes into
\* request.state, its token into the X-CSRF-Token header.  A failing store
\* call is re-raised and leaves login as an unhandled exception.
create_session_setex(r, ok) ==
    /\ req[r].pc = "create_setex"
    /\ LET key == req[r].session_key[1]
           session_data == req[r].pending[1]
           rq == [req[r] EXCEPT !.session_key = None, !.pending = None,
                                !.gs_now = 0]
       IN  IF ok
           THEN /\ store' = CreateWrite(store, key, session_data, now)
                /\ Complete(r, Respond([rq EXCEPT !.state_session_data =
                                                      Some(session_data)],
                                       200, "", "Login successful!",
                                       Some(session_data.csrf_token), None))
           ELSE /\ store' = store
                /\ Complete(r, ServerError(rq))
    /\ UNCHANGED <<now, users, nextSid, nextTok, logged_out>>

\* faulty variant: a failed delete is swallowed and logout reports success
route_logout_swallow(r, inp, ok) ==
    /\ req[r].pc = "route" /\ inp.route = "logout"
    /\ LET rq == [req[r] EXCEPT !.inp = inp]
           dep == get_current_session_data(rq.state_session_data)
           session_id == dep.value[1].session_id
       IN  IF dep.exc # ""
           THEN /\ store' = store
                /\ logged_out' = logged_out
                /\ Complete(r, RespondException(rq, dep.exc, dep.detail))
           ELSE IF ok
           THEN /\ store' = RedisDelete(store, UuidStr(session_id))
                /\ logged_out' = logged_out \cup {session_id}
                /\ Complete(r, Respond(
                       [rq EXCEPT !.session_deleted = TRUE,
                                  !.deleted_count =
                                      RedisDeleteCount(store,
                                                       UuidStr(session_id))],
                       200, "", "Logged out successfully!", None, None))
           ELSE /\ store' = store
                /\ logged_out' = logged_out
                /\ Complete(r, Respond(
                       [rq EXCEPT !.session_deleted = TRUE],
                       200, "", "Logged out successfully!", None, None))
    /\ UNCHANGED <<now, users, nextSid, nextTok>>

\* POST /api/auth/logout: get_current_session_data, then
\* AuthService.logout_user -> delete_session, then the deletion mark
route_logout(r, inp, ok) ==
    /\ req[r].pc = "route" /\ inp.route = "logout"
    /\ LET rq == [req[r] EXCEPT !.inp = inp]
           dep == get_current_session_data(rq.state_session_data)
           session_id == dep.value[1].session_id
       IN  IF dep.exc # ""
           THEN /\ store' = store
                /\ logged_out' = logged_out
                /\ Complete(r, RespondException(rq, dep.exc, dep.detail))
           ELSE IF ok
           THEN /\ store' = RedisDelete(store, UuidStr(session_id))
                /\ logged_out' = logged_out \cup {session_id}
                /\ Complete(r, Respond(
                       [rq EXCEPT !.session_deleted = TRUE,
                                  !.deleted_count =
                                      RedisDeleteCount(store,
                                                       UuidStr(session_id))],
                       200, "", "Logged out successfully!", None, None))
           ELSE /\ store' = store
                /\ logged_out' = logged_out
                /\ Complete(r, ServerError(rq))
    /\ UNCHANGED <<now, users, nextSid, nextTok>>

\* a route behind get_current_user (GET /api/users/me is the one the
\* routers declare); the guard reads the request's method and header
route_me(r, inp) ==
    /\ req[r].pc = "route" /\ inp.route = "me"
    /\ LET guard == get_current_user_id_and_validate_csrf(
                        inp.method, inp.header, req[r].state_session_data)
           rq == [req[r] EXCEPT !.inp = inp,
                                !.guard = IF guard.exc = "" THEN guard.value
                                          ELSE None]
           dep == get_current_user(inp.method, inp.header,
                                   rq.state_session_data)
       IN  Complete(r, IF dep.exc # ""
                       THEN RespondException(rq, dep.exc, dep.detail)
                       ELSE Respond(rq, 200, "", "", None,
                                    Some(dep.value[1].id)))
    /\ UNCHANGED <<now, store, users, nextSid, nextTok, logged_out>>

\* ----------------------------------------------------- the users table
\* The table lives in a database the application shares: a row is removed
\* from outside (the application itself has no delete_user), which leaves
\* the sessions of that user in Redis.
UserRowRemoved ==
    /\ \E u \in users : users' = users \ {u}
    /\ sent' = None
    /\ UNCHANGED <<now, store, nextSid, nextTok, req, logged_out>>

\* ---------------------------------------------------------------- time
\* a second passes; Redis drops the keys whose time to live has elapsed
Tick ==
    /\ now < MaxTime
    /\ now' = now + 1
    /\ store' = RedisExpire(store, now + 1)
    /\ sent' = None
    /\ UNCHANGED <<users, nextSid, nextTok, req, logged_out>>

\* ------------------------------------------------------- what clients send
\* a cookie value: none, or an id a login handed out
IssuedCookies == { None } \cup { Some(UuidStr(u)) : u \in 1 .. (nextSid - 1) }
\* ... or junk, or a guessed id
Cookies == IssuedCookies \cup { Some(JunkText), Some(UuidStr(ForgedId)) }

Methods == {"GET", "HEAD", "OPTIONS", "POST", "PUT", "PATCH", "DELETE"}
\* an X-CSRF-Token header: none, a made-up text, or a token a login returned
HeaderValues ==
    { None, Some(EmptyText), Some(ShortText), Some(ForgedToken),
      Some(NonAsciiToken) }
        \cup { Some(Token(n)) : n \in 1 .. (nextTok - 1) }

\* one user: alice
Registrations ==
    { Request("register", "POST", None, "alice", "a@x", "pw1") }
\* by name or by e-mail, with the right or a wrong password, or a stranger
Logins ==
    { Request("login", "POST", None, "alice", "", "pw1"),
      Request("login", "POST", None, "a@x", "", "pw1"),
      Request("login", "POST", None, "alice", "", "pw2"),
      Request("login", "POST", None, "nobody", "", "pw1") }
OneLogin == { Request("login", "POST", None, "alice", "", "pw1") }
\* registrations that collide: on the username, on the e-mail, and a
\* username that is written like the e-mail of another registration
ManyRegistrations ==
    { Request("register", "POST", None, username, email, "pw1") :
        username \in {"alice", "bob", "a@x"}, email \in {"a@x", "b@x"} }
Logouts == { Request("logout", "POST", None, "", "", "") }
\* a guarded route under every method and header
Guarded ==
    { Request("me", m, h, "", "", "") : m \in Methods, h \in HeaderValues }
\* a read and a write, without a header, with a made-up one, with a real one
SomeGuarded ==
    { Request("me", m, h, "", "", "") :
        m \in {"GET", "POST"},
        h \in { None, Some(ForgedToken) }
                 \cup { Some(Token(n)) : n \in 1 .. (nextTok - 1) } }
OneGuarded == { Request("me", "GET", None, "", "", "") }

\* a store call succeeds or fails
Outcomes == BOOLEAN
\* one request at a time
Sequential == {"r1"}

\* one request at a time, any cookie, store calls that may fail
Next ==
    \/ \E r \in Sequential, cookie \in Cookies, ok \in Outcomes :
          dispatch_inbound(r, cookie, ok)
    \/ \E r \in Sequential : get_session_check(r)
    \/ \E r \in Sequential, ok \in Outcomes : get_session_setex(r, ok)
    \/ \E r \in Sequential, ok \in Outcomes : get_session_delete(r, ok)
    \/ \E r \in Sequential, inp \in Registrations : route_register(r, inp)
    \/ \E r \in Sequential, inp \in Logins : route_login(r, inp, MaxSessions)
    \/ \E r \in Sequential, ok \in Outcomes : create_session_setex(r, ok)
    \/ \E r \in Sequential, inp \in Logouts, ok \in Outcomes :
          route_logout(r, inp, ok)
    \/ \E r \in Sequential, inp \in SomeGuarded : route_me(r, inp)
    \/ Tick

Spec == Init /\ [][Next]_vars

\* one request at a time, the guarded route under every method and header
NextGuard ==
    \/ \E r \in Sequential, cookie \in IssuedCookies, ok \in {TRUE} :
          dispatch_inbound(r, cookie, ok)
    \/ \E r \in Sequential : get_session_check(r)
    \/ \E r \in Sequential, ok \in {TRUE} : get_session_setex(r, ok)
    \/ \E r \in Sequential, ok \in {TRUE} : get_session_delete(r, ok)
    \/ \E r \in Sequential, inp \in Registrations : route_register(r, inp)
    \/ \E r \in Sequential, inp \in OneLogin : route_login(r, inp, MaxSessions)
    \/ \E r \in Sequential, ok \in {TRUE} : create_session_setex(r, ok)
    \/ \E r \in Sequential, inp \in Logouts, ok \in {TRUE} :
          route_logout(r, inp, ok)
    \/ \E r \in Sequential, inp \in Guarded : route_me(r, inp)
    \/ Tick

SpecGuard == Init /\ [][NextGuard]_vars

\* two requests at a time on the one session of one user
NextConc ==
    \/ \E r \in Reqs, cookie \in IssuedCookies, ok \in Outcomes :
          dispatch_inbound(r, cookie, ok)
    \/ \E r \in Reqs : get_session_check(r)
    \/ \E r \in Reqs, ok \in Outcomes : get_session_setex(r, ok)
    \/ \E r \in Reqs, ok \in Outcomes : get_session_delete(r, ok)
    \/ \E r \in Reqs, inp \in Registrations : route_register(r, inp)
    \/ \E r \in Reqs, inp \in OneLogin : route_login(r, inp, 1)
    \/ \E r \in Reqs, ok \in Outcomes : create_session_setex(r, ok)
    \/ \E r \in Reqs, inp \in Logouts, ok \in Outcomes :
          route_logout(r, inp, ok)
    \/ \E r \in Reqs, inp \in OneGuarded : route_me(r, inp)
    \/ Tick

SpecConc == Init /\ [][NextConc]_vars

\* one request at a time, one session after another
NextMulti ==
    \/ \E r \in Sequential, cookie \in IssuedCookies, ok \in {TRUE} :
          dispatch_inbound(r, cookie, ok)
    \/ \E r \in Sequential : get_session_check(r)
    \/ \E r \in Sequential, ok \in {TRUE} : get_session_setex(r, ok)
    \/ \E r \in Sequential, ok \in {TRUE} : get_session_delete(r, ok)
    \/ \E r \in Sequential, inp \in Registrations : route_register(r, inp)
    \/ \E r \in Sequential, inp \in OneLogin :
          route_login(r, inp, MaxSessions + 1)
    \/ \E r \in Sequential, ok \in {TRUE} : create_session_setex(r, ok)
    \/ \E r \in Sequential, inp \in Logouts, ok \in {TRUE} :
          route_logout(r, inp, ok)
    \/ \E r \in Sequential, inp \in OneGuarded : route_me(r, inp)
    \/ Tick

SpecMulti == Init /\ [][NextMulti]_vars

\* registrations only, one request at a time
NextReg ==
    \/ \E r \in Sequential, cookie \in {None}, ok \in {TRUE} :
          dispatch_inbound(r, cookie, ok)
    \/ \E r \in Sequential, inp \in ManyRegistrations : route_register(r, inp)
    \/ Tick

SpecReg == Init /\ [][NextReg]_vars

\* Registrations racing: two requests, each going through its two lookups
\* and its insert, interleaved in every order.
NextRace ==
    \/ \E r \in Reqs, cookie \in {None}, ok \in {TRUE} :
          dispatch_inbound(r, cookie, ok)
    \/ \E r \in Reqs, inp \in ManyRegistrations :
          register_check_username(r, inp)
    \/ \E r \in Reqs : register_check_email(r)
    \/ \E r \in Reqs : create_user(r)

SpecRace == Init /\ [][NextRace]_vars

\* alice has registered
InitOrphan ==
    /\ now = 0
    /\ store = [k \in Keys |-> None]
    /\ users = { [ id |-> 11, username |-> "alice", email |-> "a@x",
                   hashed_password |-> hash_password("pw1") ] }
    /\ nextSid = 1
    /\ nextTok = 1
    /\ req = [r \in Reqs |-> Idle]
    /\ sent = None
    /\ logged_out = {}

\* one request at a time, and the user's row may go
NextOrphan ==
    \/ \E r \in Sequential, cookie \in IssuedCookies, ok \in {TRUE} :
          dispatch_inbound(r, cookie, ok)
    \/ \E r \in Sequential : get_session_check(r)
    \/ \E r \in Sequential, ok \in {TRUE} : get_session_setex(r, ok)
    \/ \E r \in Sequential, ok \in {TRUE} : get_session_delete(r, ok)
    \/ \E r \in Sequential, inp \in OneLogin : route_login(r, inp, MaxSessions)
    \/ \E r \in Sequential, ok \in {TRUE} : create_session_setex(r, ok)
    \/ \E r \in Sequential, inp \in SomeGuarded : route_me(r, inp)
    \/ UserRowRemoved
    \/ Tick

SpecOrphan == InitOrphan /\ [][NextOrphan]_vars

\* Sessions from creation to their end, under fair scheduling.  alice is
\* registered; two requests are handled concurrently and every store call may
\* fail.  The model clock stops at MaxTime, so the behaviours are those in
\* which the idle TTL of a write can elapse before it stops: a login starts
\* while its absolute limit lies within Horizon, and a store write still in
\* flight when the clock has passed Horizon hangs, unless it is made in the
\* clock unit in which the request read the clock.
Horizon == MaxTime - SESSION_IDLE_TIMEOUT

WriteReturns(r) == now <= Horizon \/ req[r].gs_now = now

get_session_setex_live(r, ok) ==
    /\ WriteReturns(r)
    /\ get_session_setex(r, ok)

create_session_setex_live(r, ok) ==
    /\ WriteReturns(r)
    /\ create_session_setex(r, ok)

route_login_live(r, inp) ==
    /\ now + SESSION_ABSOLUTE_TIMEOUT <= Horizon
    /\ route_login(r, inp, 1)

NextLive ==
    \/ \E r \in Reqs, cookie \in IssuedCookies, ok \in Outcomes :
          dispatch_inbound(r, cookie, ok)
    \/ \E r \in Reqs : get_session_check(r)
    \/ \E r \in Reqs, ok \in Outcomes : get_session_setex_live(r, ok)
    \/ \E r \in Reqs, ok \in Outcomes : get_session_delete(r, ok)
    \/ \E r \in Reqs, inp \in OneLogin : route_login_live(r, inp)
    \/ \E r \in Reqs, ok \in Outcomes : create_session_setex_live(r, ok)
    \/ \E r \in Reqs, inp \in OneGuarded : route_me(r, inp)
    \/ Tick

\* time advances, and the event loop resumes a request whose store call
\* has returned
Fairness ==
    /\ WF_vars(Tick)
    /\ \A r \in Reqs :
          /\ WF_vars(get_session_check(r))
          /\ WF_vars(\E ok \in Outcomes : get_session_setex_live(r, ok))
          /\ WF_vars(\E ok \in Outcomes : get_session_delete(r, ok))
          /\ WF_vars(\E ok \in Outcomes : create_session_setex_live(r, ok))

SpecLive == InitOrphan /\ [][NextLive]_vars /\ Fairness

\* ================================================================ claims
\* the record persisted under key k, decoded
Persisted(k) == model_validate_json(store[k][1].value)
\* the record a retrieve has read, decoded
ReadRecord(r) == model_validate_json(req[r].session_json[1])

\* C1 (as amended): a retrieve that reads the clock at a time later than
\* created_at + SESSION_ABSOLUTE_TIMEOUT takes the expired path whatever
\* renewals came before; it never returns the session, and unless its
\* delete call fails it ends in SessionExpired with the record absent.
C1_ExpiredPastCeiling ==
    [][\A r \in Reqs :
        /\ (req[r].pc = "gs_check" /\ req'[r].pc # "gs_check"
              /\ now > ReadRecord(r).created_at + SESSION_ABSOLUTE_TIMEOUT)
           => req'[r].pc = "gs_delete"
        /\ (req[r].pc = "gs_delete" /\ req'[r].pc # "gs_delete")
           => /\ req'[r].session_data = None
              /\ req'[r].state_session_data = None
              /\ req'[r].gs_result \in {"expired", "error"}
              /\ req'[r].gs_result = "expired"
                   => store'[req[r].session_key[1]] = None
      ]_vars

\* C1, witness: a retrieve ended in SessionExpired at a time the idle
\* window alone could not have been open without renewals
C1_Witness ==
    \E r \in Reqs :
        /\ req[r].pc = "route"
        /\ req[r].gs_result = "expired"
        /\ store[req[r].cookie[1]] = None
        /\ now > SESSION_IDLE_TIMEOUT + 1

\* C1 as stated: the same at every time t >= created_at +
\* SESSION_ABSOLUTE_TIMEOUT, the boundary included
C1_AsStated ==
    [][\A r \in Reqs :
        (req[r].pc = "gs_check" /\ req'[r].pc # "gs_check"
           /\ now >= ReadRecord(r).created_at + SESSION_ABSOLUTE_TIMEOUT)
        => req'[r].pc = "gs_delete"
      ]_vars

\* the request the last step completed was for this route
Completed(route) == sent # None /\ sent[1].inp.route = route

\* C2: when a logout of session s completes, the response clears the cookie
\* although the session is still in the request context, no record of s is
\* in the store, and a request that arrives later with the old cookie of s
\* never has a session in its context.
C2_Logout ==
    /\ (Completed("logout") /\ sent[1].resp.status = 200)
       => /\ sent[1].state_session_data # None
          /\ sent[1].resp.set_cookie = Some(DeleteCookie)
          /\ store[sent[1].cookie[1]] = None
    /\ \A r \in Reqs :
          req[r].after_logout
          => req[r].session_data = None /\ req[r].state_session_data = None

\* C3: on a guarded route under a method other than GET, HEAD, OPTIONS and
\* with a resolved session, the guard lets the request through with the
\* session's user_id exactly when the X-CSRF-Token header equals the
\* session's csrf_token, and answers a non-empty header that differs from it
\* with the CSRF mismatch failure.
C3_GuardChecksToken ==
    (Completed("me") /\ sent[1].inp.method \notin SafeMethods
        /\ sent[1].state_session_data # None)
    => LET session_data == sent[1].state_session_data[1]
           header == sent[1].inp.header
           resp == sent[1].resp
       IN  /\ sent[1].guard = Some(session_data.user_id)
                <=> header = Some(session_data.csrf_token)
           /\ (header # None /\ header # Some(EmptyText)
                 /\ header # Some(session_data.csrf_token))
              => /\ resp.status = 403
                 /\ resp.code = "CSRF_TOKEN_MISMATCH"
                 /\ resp.user_id = None

\* C3, witness: a write with the session's own token got through
C3_Witness ==
    /\ Completed("me")
    /\ sent[1].inp.method = "DELETE"
    /\ sent[1].state_session_data # None
    /\ sent[1].inp.header = Some(sent[1].state_session_data[1].csrf_token)
    /\ sent[1].guard = Some(sent[1].state_session_data[1].user_id)

\* C4: a write with a resolved session and no X-CSRF-Token header is
\* refused, with a code that is not the code of a wrong token.
C4_MissingIsDistinct ==
    (Completed("me") /\ sent[1].inp.method \notin SafeMethods
        /\ sent[1].state_session_data # None /\ sent[1].inp.header = None)
    => /\ sent[1].resp.status # 200
       /\ sent[1].resp.code #
            ExceptionResponse("CSRFTokenMismatchException", "").code

\* C5: every write of a session record, by create and by each successful
\* retrieve, gives the key a time to live of SESSION_IDLE_TIMEOUT; a key is
\* in the store exactly as long as less than SESSION_IDLE_TIMEOUT has passed
\* since its last write, so each retrieve within the window keeps it and a
\* key idle for the whole window is gone; the store drops a key only when
\* its window has closed.
C5_SlidingIdleWindow ==
    [][\A k \in Keys :
        /\ (store'[k] # None /\ store'[k] # store[k])
           => store'[k][1].expire_at = now' + SESSION_IDLE_TIMEOUT
        /\ store'[k] # None
           => /\ now' < store'[k][1].expire_at
              /\ store'[k][1].expire_at <= now' + SESSION_IDLE_TIMEOUT
        /\ (store[k] # None /\ store'[k] = None /\ now' # now)
           => store[k][1].expire_at <= now'
        /\ (store[k] # None /\ now' # now /\ store[k][1].expire_at <= now')
           => store'[k] = None
      ]_vars

\* C5, witness: a session kept alive by retrieves well past one idle window
\* after its creation
C5_Witness ==
    \E k \in Keys :
        /\ store[k] # None
        /\ Persisted(k).last_activity_at > Persisted(k).created_at
        /\ now > Persisted(k).created_at + SESSION_IDLE_TIMEOUT
        /\ store[k][1].expire_at = now + SESSION_IDLE_TIMEOUT

\* C6: a persisted record keeps its session_id, user_id, csrf_token,
\* created_at and expires_at through every write made while it exists, and
\* its expires_at is created_at + SESSION_ABSOLUTE_TIMEOUT; a successful
\* retrieve returns that same record and changes last_activity_at and the
\* time to live only.
C6_RetrieveFrame ==
    [][/\ \A k \in Keys :
            (store'[k] # None /\ store'[k] # store[k])
            => LET new == model_validate_json(store'[k][1].value)
               IN  /\ new.expires_at
                         = new.created_at + SESSION_ABSOLUTE_TIMEOUT
                   /\ UuidStr(new.session_id) = k
                   /\ store[k] # None
                        => /\ new.session_id = Persisted(k).session_id
                           /\ new.user_id = Persisted(k).user_id
                           /\ new.csrf_token = Persisted(k).csrf_token
                           /\ new.created_at = Persisted(k).created_at
                           /\ new.expires_at = Persisted(k).expires_at
       /\ \A r \in Reqs :
            (req[r].pc = "gs_setex" /\ req'[r].gs_result = "found")
            => LET k == req[r].session_key[1]
               IN  /\ store'[k] # None
                   /\ req'[r].session_data =
                         Some(model_validate_json(store'[k][1].value))
      ]_vars

\* C6, witness: a record renewed after its creation
C6_Witness ==
    \E k \in Keys, r \in Reqs :
        /\ store[k] # None
        /\ req[r].gs_result = "found"
        /\ req[r].session_data = Some(Persisted(k))
        /\ Persisted(k).last_activity_at > Persisted(k).created_at

\* C7 (as amended): a persisted record satisfies created_at <=
\* last_activity_at <= current time and last_activity_at <= expires_at.
C7_StoreInvariant ==
    \A k \in Keys :
        store[k] # None
        => /\ Persisted(k).created_at <= Persisted(k).last_activity_at
           /\ Persisted(k).last_activity_at <= now
           /\ Persisted(k).last_activity_at <= Persisted(k).expires_at

\* C7, witness: a record still persisted after its expires_at
C7_Witness ==
    \E k \in Keys : store[k] # None /\ now > Persisted(k).expires_at

\* C7 as stated: a persisted record satisfies last_activity_at <= current
\* time <= expires_at.
C7_AsStated ==
    \A k \in Keys :
        store[k] # None
        => /\ Persisted(k).last_activity_at <= now
           /\ now <= Persisted(k).expires_at

\* C8: a request that presents a cookie for which no session is resolved
\* (no record under the id, or a record past its absolute lifetime), on a
\* route that creates no session, gets a response that clears the cookie
\* and is treated as unauthenticated.
C8_CookieCleared ==
    (sent # None /\ sent[1].cookie # None
        /\ sent[1].gs_result \in {"absent", "expired"}
        /\ sent[1].inp.route # "login")
    => /\ sent[1].state_session_data = None
       /\ sent[1].resp.set_cookie = Some(DeleteCookie)
       /\ sent[1].inp.route \in {"me", "logout"}
            => sent[1].resp.code = "UNAUTHORIZED"

\* C9: a login that succeeds writes exactly one record, under an id that
\* had no record and is not the id of the cookie the request presented;
\* the response sets the cookie to that id and its X-CSRF-Token header is
\* the csrf_token of the record.
C9_LoginCreatesFreshSession ==
    [][(sent' # None /\ sent'[1].inp.route = "login"
          /\ sent'[1].resp.status = 200)
       => LET resp == sent'[1].resp
              k == resp.set_cookie[1].value
          IN  /\ resp.set_cookie # None
              /\ resp.set_cookie[1].op = "set"
              /\ k \in Keys
              /\ Some(k) # sent'[1].cookie
              /\ k \notin { UuidStr(u) : u \in 1 .. (nextSid - 2) }
              /\ store[k] = None
              /\ store'[k] # None
              /\ \A j \in Keys \ {k} : store'[j] = store[j]
              /\ UuidStr(model_validate_json(store'[k][1].value).session_id) = k
              /\ resp.csrf_header =
                    Some(model_validate_json(store'[k][1].value).csrf_token)
      ]_vars

\* C9, witness: a login that presented the cookie of a live session got a
\* second session
C9_Witness ==
    /\ Completed("login")
    /\ sent[1].resp.status = 200
    /\ sent[1].cookie # None
    /\ store[sent[1].cookie[1]] # None
    /\ store[sent[1].resp.set_cookie[1].value] # None
    /\ sent[1].resp.set_cookie[1].value # sent[1].cookie[1]

\* two records that differ at most in last_activity_at
SameButActivity(a, b) == [a EXCEPT !.last_activity_at = 0]
                             = [b EXCEPT !.last_activity_at = 0]

\* C10: whenever a retrieve that found a live session completes its write,
\* whatever other retrieve of the same id read or wrote in between, the
\* record is present under the one key with a time to live of
\* SESSION_IDLE_TIMEOUT from now, no other key changes, and the record
\* differs at most in last_activity_at from the record that was there and from
\* the record any other retrieve in flight is about to write.
C10_ConcurrentRetrieves ==
    [][\A r \in Reqs :
        (req[r].pc = "gs_setex" /\ req'[r].gs_result = "found")
        => LET k == req[r].session_key[1]
               new == model_validate_json(store'[k][1].value)
           IN  /\ store'[k] # None
               /\ store'[k][1].expire_at = now + SESSION_IDLE_TIMEOUT
               /\ req'[r].session_data = Some(new)
               /\ \A j \in Keys \ {k} : store'[j] = store[j]
               /\ store[k] # None => SameButActivity(Persisted(k), new)
               /\ \A q \in Reqs \ {r} :
                     (req[q].pc = "gs_setex" /\ req[q].session_key = Some(k))
                     => /\ SameButActivity(req[q].pending[1], new)
                        /\ req'[q] = req[q]
      ]_vars

\* C10, witness: two retrieves of one session raced and the one that read
\* the clock first wrote last
C10_Witness ==
    \E r \in Reqs : \E q \in Reqs \ {r} :
        /\ req[r].pc = "route" /\ req[r].gs_result = "found"
        /\ req[q].pc = "route" /\ req[q].gs_result = "found"
        /\ req[r].cookie = req[q].cookie
        /\ store[req[r].cookie[1]] # None
        /\ req[q].session_data = Some(Persisted(req[r].cookie[1]))
        /\ req[r].session_data[1].last_activity_at
              > req[q].session_data[1].last_activity_at

\* C11: the last_activity_at of a persisted record never becomes smaller:
\* no write to a key that holds a record stores an earlier last_activity_at
\* than the record had.
C11_ActivityMonotone ==
    [][\A k \in Keys :
        (store[k] # None /\ store'[k] # None)
        => model_validate_json(store'[k][1].value).last_activity_at
              >= Persisted(k).last_activity_at
      ]_vars

\* C12: when a store call of retrieve fails, retrieve hands dispatch no
\* session instead of raising: the request goes on to its route with no
\* session in context, and a route that needs a session answers it as
\* unauthenticated, never with a server error and never with the user's
\* data.
C12_FailClosed ==
    [][/\ \A r \in Reqs :
            (req'[r].gs_result = "error" /\ req[r].gs_result # "error")
            => /\ req'[r].pc = "route"
               /\ req'[r].session_data = None
               /\ req'[r].state_session_data = None
       /\ (sent' # None /\ sent'[1].gs_result = "error")
          => /\ sent'[1].resp.user_id = None
             /\ sent'[1].inp.route \in {"me", "logout"}
                  => /\ sent'[1].resp.status = 401
                     /\ sent'[1].resp.code = "UNAUTHORIZED"
             /\ sent'[1].inp.route = "register"
                  => sent'[1].resp.status \in {201, 409}
      ]_vars

\* C12, witness: a request whose retrieve failed at the store, for a session
\* that is in the store, was answered as unauthenticated
C12_Witness ==
    /\ Completed("me")
    /\ sent[1].gs_result = "error"
    /\ store[sent[1].cookie[1]] # None
    /\ sent[1].resp.status = 401

\* C13: when the store write of create fails, login fails: the response is
\* an error, it sets no cookie and carries no X-CSRF-Token header, the
\* request context holds no session other than the one dispatch resolved,
\* and the store has no record under the new id.
C13_CreateFailurePropagates ==
    [][\A r \in Reqs :
        (req[r].pc = "create_setex" /\ req'[r].pc # "create_setex"
           /\ store'[req[r].session_key[1]] = None)
        => /\ sent' # None
           /\ sent'[1].inp.route = "login"
           /\ sent'[1].resp.status = 500
           /\ sent'[1].resp.set_cookie = None
           /\ sent'[1].resp.csrf_header = None
           /\ sent'[1].state_session_data = req[r].state_session_data
           /\ sent'[1].state_session_data
                 # Some(req[r].pending[1])
           /\ store' = store
      ]_vars

\* C13, witness: a login with valid credentials ended in a server error and
\* left no record
C13_Witness ==
    /\ Completed("login")
    /\ sent[1].resp.status = 500
    /\ \A k \in Keys : store[k] = None
    /\ nextSid > 1

\* C14: a delete of an id that has no record ends without an error and
\* leaves the store as it was; every delete leaves the id without a record
\* and the records under all other ids untouched.
C14_IdempotentDelete ==
    [][\A r \in Reqs :
        /\ (req[r].pc = "route" /\ req[r].state_session_data # None
              /\ sent' # None /\ sent'[1].pc = r
              /\ sent'[1].inp.route = "logout")
           => LET k == UuidStr(req[r].state_session_data[1].session_id)
              IN  /\ sent'[1].resp.status = 200
                  /\ store'[k] = None
                  /\ \A j \in Keys \ {k} : store'[j] = store[j]
                  /\ store[k] = None
                       => store' = store /\ sent'[1].deleted_count = 0
        /\ (req[r].pc = "gs_delete" /\ req'[r].pc # "gs_delete")
           => LET k == req[r].session_key[1]
              IN  /\ req'[r].gs_result = "expired"
                  /\ store'[k] = None
                  /\ \A j \in Keys \ {k} : store'[j] = store[j]
      ]_vars

\* C14, witness: a logout deleted an id whose record the store had already
\* dropped, and succeeded
C14_Witness ==
    /\ Completed("logout")
    /\ sent[1].resp.status = 200
    /\ sent[1].deleted_count = 0
    /\ store[sent[1].cookie[1]] = None

\* C15: a request to a guarded route that has no session in context is
\* answered as unauthenticated, whatever its method and its X-CSRF-Token
\* header, and never with a CSRF failure.
C15_SessionBeforeCsrf ==
    (Completed("me") /\ sent[1].state_session_data = None)
    => /\ sent[1].resp.status = 401
       /\ sent[1].resp.code = "UNAUTHORIZED"
       /\ sent[1].resp.code #
             ExceptionResponse("CSRFTokenMismatchException", "").code
       /\ sent[1].guard = None
       /\ sent[1].resp.user_id = None

\* C15, witness: a write without a session and without a header was
\* answered as unauthenticated
C15_Witness ==
    /\ Completed("me")
    /\ sent[1].state_session_data = None
    /\ sent[1].inp.method = "POST"
    /\ sent[1].inp.header = None
    /\ sent[1].resp.code = "UNAUTHORIZED"

C17_LogoutChecksToken ==
    (Completed("logout") /\ sent[1].state_session_data # None
        /\ sent[1].inp.header
             # Some(sent[1].state_session_data[1].csrf_token))
    => /\ sent[1].resp.status # 200
       /\ ~ sent[1].session_deleted
       /\ sent[1].state_session_data[1].session_id \notin logged_out

\* C18: a request to a guarded route whose cookie names a session that
\* retrieve found past its absolute lifetime is answered with the code of
\* SessionExpired, which is not the code a request without a session gets.
C18_ExpiredIsDistinct ==
    (Completed("me") /\ sent[1].gs_result = "expired")
    => /\ sent[1].resp.status = 401
       /\ sent[1].resp.code
             = ExceptionResponse("SessionExpiredException", "").code
       /\ sent[1].resp.code
             # ExceptionResponse("UnauthorizedException", "").code

\* C20: a register request whose username is the username of a user in the
\* table, or whose e-mail is the e-mail of one, is answered with
\* UserAlreadyExists and leaves the table as it was; a request whose username
\* and e-mail are the username or e-mail of no user in the table adds exactly
\* one row, with that username and e-mail, and keeps the others.
C20_RegistrationUniqueness ==
    [][\A r \in Reqs :
        (req[r].pc = "route" /\ sent' # None /\ sent'[1].pc = r
            /\ sent'[1].inp.route = "register")
        => LET inp == sent'[1].inp
               resp == sent'[1].resp
               used(text) == \E u \in users : u.username = text \/ u.email = text
           IN  /\ ((\E u \in users : u.username = inp.ident)
                      \/ (\E u \in users : u.email = inp.email))
                  => /\ resp.status = 409
                     /\ resp.code = "USER_ALREADY_EXISTS"
                     /\ users' = users
               /\ (~ used(inp.ident) /\ ~ used(inp.email))
                  => /\ resp.status = 201
                     /\ users \subseteq users'
                     /\ Cardinality(users' \ users) = 1
                     /\ \A u \in users' \ users :
                           /\ u.username = inp.ident /\ u.email = inp.email
                           /\ \A v \in users : v.id # u.id
      ]_vars

\* C20, witness: with two users in the table, a registration under a new
\* username and the e-mail of one of them was refused
C20_Witness ==
    /\ Completed("register")
    /\ Cardinality(users) = 2
    /\ \A u \in users : u.username # sent[1].inp.ident
    /\ \E u \in users : u.email = sent[1].inp.email
    /\ sent[1].resp.code = "USER_ALREADY_EXISTS"

\* C19: a request to a guarded route that passed the guard with a session
\* whose user_id has no row in the users table is answered as
\* unauthenticated, and the record of that session is no longer in the store.
C19_OrphanedSession ==
    (Completed("me") /\ sent[1].guard # None
        /\ get_user_by_id(sent[1].guard[1]) = None)
    => /\ sent[1].resp.status = 401
       /\ sent[1].resp.code = "UNAUTHORIZED"
       /\ store[UuidStr(sent[1].state_session_data[1].session_id)] = None

\* C21: a login whose identifier matches no user and a login whose
\* identifier matches a user but whose password does not verify get the same
\* status, code and message: each of them gets the one answer of
\* IncorrectCredentials, whichever of the two was wrong.
C21_LoginFailureOpaque ==
    Completed("login")
    => LET user == get_user_by_username_or_email(sent[1].inp.ident)
           no_user == user = None
           wrong_password ==
               /\ user # None
               /\ ~ verify_password(sent[1].inp.password,
                                    user[1].hashed_password)
           outcome == << sent[1].resp.status, sent[1].resp.code,
                         sent[1].resp.message >>
       IN  (no_user \/ wrong_password)
           => outcome = << 401, "INCORRECT_CREDENTIALS",
                           "Invalid username/email or password." >>

\* C21, witness: alice is registered and a login under her name with a wrong
\* password was refused
C21_Witness ==
    /\ Completed("login")
    /\ get_user_by_username_or_email(sent[1].inp.ident) # None
    /\ sent[1].inp.password = "pw2"
    /\ sent[1].resp.code = "INCORRECT_CREDENTIALS"

\* C22: validate_csrf_token, applied to the csrf_token of the session of a
\* guarded request and to the text of its X-CSRF-Token header (empty for a
\* request without the header), raises nothing and returns true exactly
\* when the two texts are non-empty and equal.
C22_TokenCompare ==
    (Completed("me") /\ sent[1].state_session_data # None)
    => LET expected_token == sent[1].state_session_data[1].csrf_token
           received_token == IF sent[1].inp.header = None THEN EmptyText
                             ELSE sent[1].inp.header[1]
           is_valid == validate_csrf_token(expected_token, received_token)
       IN  /\ is_valid.exc = ""
           /\ is_valid.value[1]
                = (/\ expected_token # EmptyText
                   /\ received_token # EmptyText
                   /\ expected_token = received_token)

\* C23: create makes one store write.  The step of login that builds the
\* record leaves the store alone; the step that writes it changes the one
\* key of the new session_id, which held nothing and was never handed out,
\* to a record with TTL = SESSION_IDLE_TIMEOUT that decodes to the record
\* login got back: the user_id of the user who logged in, the csrf_token the
\* response carries, created_at = last_activity_at = the clock create_session
\* read, expires_at = that clock + SESSION_ABSOLUTE_TIMEOUT.
C23_CreateRecord ==
    [][\A r \in Reqs :
        /\ (req[r].pc = "route" /\ req'[r].pc = "create_setex")
           => /\ store' = store
              /\ req'[r].gs_now = now
              /\ req'[r].pending[1].session_id = nextSid
              /\ nextSid' > nextSid
        /\ (req[r].pc = "create_setex" /\ sent' # None /\ sent'[1].pc = r
               /\ sent'[1].resp.status = 200)
           => LET returned == sent'[1].state_session_data[1]
                  key == UuidStr(returned.session_id)
                  user == get_user_by_username_or_email(sent'[1].inp.ident)
              IN  /\ store[key] = None
                  /\ returned.session_id \notin logged_out
                  /\ returned.session_id < nextSid
                  /\ store'[key] # None
                  /\ \A k \in Keys \ {key} : store'[k] = store[k]
                  /\ store'[key][1].expire_at = now + SESSION_IDLE_TIMEOUT
                  /\ model_validate_json(store'[key][1].value) = returned
                  /\ returned.user_id = user[1].id
                  /\ Some(returned.csrf_token) = sent'[1].resp.csrf_header
                  /\ returned.created_at = req[r].gs_now
                  /\ returned.last_activity_at = req[r].gs_now
                  /\ returned.expires_at
                        = req[r].gs_now + SESSION_ABSOLUTE_TIMEOUT
      ]_vars

\* C23, witness: a login succeeded whose store write came a second after
\* create_session read the clock
C23_Witness ==
    /\ Completed("login")
    /\ sent[1].resp.status = 200
    /\ sent[1].state_session_data[1].created_at < now
    /\ store[UuidStr(sent[1].state_session_data[1].session_id)] # None

C25_CookieRefreshed ==
    (sent # None /\ sent[1].state_session_data # None
        /\ ~ sent[1].session_deleted)
    => LET session_data == sent[1].state_session_data[1]
       IN  sent[1].resp.set_cookie
             = Some([ op |-> "set",
                      value |-> UuidStr(session_data.session_id),
                      max_age |-> SESSION_ABSOLUTE_TIMEOUT,
                      expires |-> Strftime(session_data.expires_at) ])

\* C26: a request that presents no cookie and ends with no session in its
\* context and without the deletion mark gets a response that neither sets
\* nor clears the cookie, whatever its route and the route's outcome.
C26_NoCookieNoHeader ==
    (sent # None /\ sent[1].cookie = None
        /\ sent[1].state_session_data = None /\ ~ sent[1].session_deleted)
    => /\ sent[1].resp.set_cookie = None
       /\ sent[1].gs_result = "none"

\* C26, witness: a registration without a cookie was accepted
C26_Witness ==
    /\ Completed("register")
    /\ sent[1].cookie = None
    /\ sent[1].resp.status = 201
    /\ sent[1].resp.set_cookie = None

\* C27: a user may hold several sessions.  The steps of a login leave every
\* record that is in the store as it is, also the record of the session
\* whose cookie the login request presented, and a successful login adds one
\* record under a key that held none; a logout removes nothing but the
\* record of its own session.
C27_MultipleSessions ==
    [][\A r \in Reqs :
        /\ (req[r].pc = "route" /\ req'[r].pc = "create_setex")
           => store' = store
        /\ (req[r].pc = "create_setex" /\ sent' # None /\ sent'[1].pc = r
              /\ sent'[1].resp.status = 200)
           => LET key == req[r].session_key[1]
              IN  /\ store[key] = None /\ store'[key] # None
                  /\ \A k \in Keys \ {key} : store'[k] = store[k]
                  /\ Cardinality({ k \in Keys : store'[k] # None })
                       = Cardinality({ k \in Keys : store[k] # None }) + 1
        /\ (req[r].pc = "route" /\ req[r].state_session_data # None
              /\ sent' # None /\ sent'[1].pc = r
              /\ sent'[1].inp.route = "logout")
           => LET key == UuidStr(req[r].state_session_data[1].session_id)
              IN  \A k \in Keys \ {key} : store'[k] = store[k]
      ]_vars

\* C27, witness: after the logout of one session of a user, a request with
\* the cookie of another session of the same user had its session resolved
C27_Witness ==
    /\ sent # None
    /\ sent[1].gs_result = "found"
    /\ sent[1].state_session_data # None
    /\ sent[1].state_session_data[1].session_id \notin logged_out
    /\ logged_out # {}
    /\ store[UuidStr(sent[1].state_session_data[1].session_id)] # None

\* C28: a logout with a session in context either deletes (status 200, the
\* deletion mark, the cookie cleared, no record under the id) or, when the
\* store call of delete fails, fails as a whole: the store is as it was, the
\* response is an error, the request carries no deletion mark and the
\* response does not clear the cookie.  A logout after which the record is
\* still stored is never reported as a success.
C28_DeleteFailurePropagates ==
    [][\A r \in Reqs :
        (req[r].pc = "route" /\ req[r].state_session_data # None
           /\ sent' # None /\ sent'[1].pc = r
           /\ sent'[1].inp.route = "logout")
        => LET key == UuidStr(req[r].state_session_data[1].session_id)
               done == sent'[1]
               deleted == /\ done.resp.status = 200
                          /\ done.session_deleted
                          /\ done.resp.set_cookie = Some(DeleteCookie)
                          /\ store'[key] = None
               failed == /\ done.resp.status = 500
                         /\ ~ done.session_deleted
                         /\ done.resp.set_cookie = None
                         /\ store' = store
                         /\ logged_out' = logged_out
           IN  /\ deleted \/ failed
               /\ store'[key] # None => failed
      ]_vars

\* C28, witness: a logout failed at the store and the record is still there
C28_Witness ==
    /\ Completed("logout")
    /\ sent[1].state_session_data # None
    /\ sent[1].resp.status = 500
    /\ store[UuidStr(sent[1].state_session_data[1].session_id)] # None

\* C29: the store calls of one retrieve are a read, followed by nothing when
\* the key is missing (the store is left as it was), by one delete when the
\* record is past its absolute lifetime, and by one set-with-expiry
\* otherwise; never more than two calls, never a write and a delete.
C29_RetrieveStoreCalls ==
    [][\A r \in Reqs :
        LET calls == req'[r].gs_calls
            result == req'[r].gs_result
        IN  /\ calls \in { <<>>, <<"get">>, <<"get", "setex">>,
                           <<"get", "delete">> }
            /\ (req[r].pc = "idle" /\ req'[r].pc # "idle")
               => /\ store' = store
                  /\ req'[r].pc = "route"
                       => ((calls = <<>>) <=> (result = "none"))
                  /\ req'[r].pc = "gs_check" => calls = <<"get">>
                  /\ result = "absent"
                       => (calls = <<"get">> /\ req'[r].pc = "route")
            /\ (req[r].pc = "gs_check" /\ req'[r].pc # "gs_check")
               => /\ store' = store
                  /\ calls = <<"get">>
                  /\ req'[r].pc = "gs_delete"
                       <=> ReadRecord(r).expires_at < now
                  /\ req'[r].pc = "gs_setex"
                       <=> ~ (ReadRecord(r).expires_at < now)
            /\ (req[r].pc \in {"gs_setex", "gs_delete"}
                  /\ req'[r].pc # req[r].pc)
               => /\ req'[r].pc = "route"
                  /\ calls = <<"get", IF req[r].pc = "gs_setex"
                                      THEN "setex" ELSE "delete">>
            /\ (req'[r].pc = "route" /\ result = "found")
               => calls = <<"get", "setex">>
            /\ (req'[r].pc = "route" /\ result = "expired")
               => calls = <<"get", "delete">>
      ]_vars

\* C29, witness: a retrieve that found its record past the absolute
\* lifetime returned after a read and a delete
C29_Witness ==
    \E r \in Reqs :
        /\ req[r].pc = "route"
        /\ req[r].gs_result = "expired"
        /\ req[r].gs_calls = <<"get", "delete">>

\* C30: a record never comes back.  Ids are never reused, so a key that
\* holds nothing either has never held a record (its session is being
\* created) or has lost it to a delete or to the store's eviction: a record
\* appears under a key only by the write of the create of that session, and
\* a session a logout has deleted has no record.
C30_NoResurrection ==
    [][/\ \A k \in Keys :
            (store[k] = None /\ store'[k] # None)
            => \E r \in Reqs : /\ req[r].pc = "create_setex"
                               /\ req[r].session_key = Some(k)
                               /\ req'[r].pc # "create_setex"
       /\ \A s \in logged_out' : store'[UuidStr(s)] = None
      ]_vars

\* C31: retrieve hands back a record only from its renewal step, and then
\* the record's expires_at is not earlier than the clock retrieve read; a
\* retrieve that found the record past expires_at hands back none, also
\* when its delete fails.  So a request has a session in context after
\* retrieve, and passes a guard, only with a record that was not past its
\* absolute expiry at the clock reading.
C31_NeverReturnsExpired ==
    [][/\ \A r \in Reqs :
            /\ (req[r].pc \in {"idle", "gs_check", "gs_setex", "gs_delete"}
                  /\ req'[r].pc = "route"
                  /\ req'[r].session_data # None)
               => /\ req[r].pc = "gs_setex"
                  /\ req'[r].gs_result = "found"
                  /\ req'[r].session_data[1].expires_at >= req[r].gs_now
                  /\ req'[r].state_session_data = req'[r].session_data
            /\ (req[r].pc = "gs_check" /\ req'[r].pc # "gs_check"
                  /\ ReadRecord(r).expires_at < now)
               => req'[r].pc = "gs_delete"
            /\ (req[r].pc = "gs_delete" /\ req'[r].pc # "gs_delete")
               => /\ req'[r].session_data = None
                  /\ req'[r].state_session_data = None
            /\ (req[r].pc \in {"idle", "gs_check", "gs_setex", "gs_delete"}
                  /\ req'[r].pc = "route"
                  /\ req'[r].session_data = None)
               => req'[r].state_session_data = None
       /\ (sent' # None /\ sent'[1].guard # None)
          => /\ sent'[1].gs_result = "found"
             /\ sent'[1].gs_calls = <<"get", "setex">>
      ]_vars

\* C31, witness: the delete of a record found past expires_at failed, and
\* the request reached its route without a session while the record is
\* still stored
C31_Witness ==
    \E r \in Reqs :
        /\ req[r].pc = "route"
        /\ req[r].gs_calls = <<"get", "delete">>
        /\ req[r].gs_result = "error"
        /\ req[r].state_session_data = None
        /\ store[req[r].cookie[1]] # None

\* C35: the step in which a login is refused for invalid credentials
\* leaves the session store and the id and token counters as they were; the
\* response carries no X-CSRF-Token header, and if it sets a session cookie
\* then for the session retrieve resolved from the request's own cookie,
\* with that cookie's id.
C35_FailedLoginWritesNothing ==
    [][(/\ sent' # None
        /\ sent'[1].inp.route = "login"
        /\ sent'[1].resp.code = "INCORRECT_CREDENTIALS")
       => /\ store' = store
          /\ nextSid' = nextSid
          /\ nextTok' = nextTok
          /\ sent'[1].resp.status = 401
          /\ sent'[1].resp.csrf_header = None
          /\ \A r \in Reqs : req[r].pc # "create_setex"
                                 => req'[r].pc # "create_setex"
          /\ (sent'[1].resp.set_cookie # None
                /\ sent'[1].resp.set_cookie[1].op = "set")
             => /\ sent'[1].cookie # None
                /\ sent'[1].gs_result = "found"
                /\ sent'[1].resp.set_cookie[1].value = sent'[1].cookie[1]
                /\ UuidParse(sent'[1].cookie[1]) # None
                /\ UuidParse(sent'[1].cookie[1])[1] < nextSid
      ]_vars

\* C35, witness: a login with a wrong password, sent with the cookie of a
\* live session, was refused and its response set that session's cookie
\* again
C35_Witness ==
    /\ Completed("login")
    /\ sent[1].resp.code = "INCORRECT_CREDENTIALS"
    /\ get_user_by_username_or_email(sent[1].inp.ident) # None
    /\ sent[1].resp.set_cookie # None
    /\ sent[1].resp.set_cookie[1].op = "set"
    /\ store[sent[1].cookie[1]] # None

\* C33: a response clears the session cookie only if the route marked
\* logout or the store holds no live record under the id the request
\* presented: a request whose cookie names a record that is present and
\* not past expires_at gets no cookie-clearing response, also when a store
\* call of its retrieve failed.
C33_ClearOnlyWithoutLiveRecord ==
    (/\ sent # None
     /\ sent[1].resp.set_cookie # None
     /\ sent[1].resp.set_cookie[1].op = "delete")
    => \/ sent[1].session_deleted
       \/ sent[1].cookie = None
       \/ sent[1].cookie[1] \notin Keys
       \/ store[sent[1].cookie[1]] = None
       \/ Persisted(sent[1].cookie[1]).expires_at < now

\* C34: after every interleaving of registrations no two users share a
\* username or an e-mail, and no text is the username of one user and the
\* e-mail of another, so that the username-or-email lookup matches at most
\* one user for every identifier.
C34_IdentifiersUnambiguous ==
    /\ \A u \in users, v \in users :
          u # v => /\ u.username # v.username
                   /\ u.email # v.email
                   /\ u.username # v.email
    /\ \A u \in users :
          Cardinality(select_username_or_email(u.username)) <= 1
          /\ Cardinality(select_username_or_email(u.email)) <= 1

\* a retrieve that passed the absolute check is about to renew key k
RenewalInFlight(k) ==
    \E r \in Reqs : req[r].pc = "gs_setex" /\ req[r].session_key = Some(k)

\* the record under k is past expires_at and no renewal of it is in flight
PastAndQuiet(k) ==
    /\ store[k] # None
    /\ Persisted(k).expires_at < now
    /\ ~ RenewalInFlight(k)

====
